---- MODULE Spec2Model ----
(***************************************************************************)
(* The example shell of src/main.py: its registry of commands, the         *)
(* handlers, the two renderer callbacks, and the dispatch loop of the      *)
(* pycli engine that drives them.  The engine (resolve, bind, run) is not  *)
(* part of src/; it is modelled after the specification's sections 4.1 to  *)
(* 4.4.  Python strings are sequences of one-character strings, so that    *)
(* lower(), int(), str(), basename() and the key=value split are computed. *)
(***************************************************************************)
EXTENDS Integers, Sequences, FiniteSets, TLC

(* ------------------------------ bounds -------------------------------- *)

\* Input lines read in one session.
MaxLines == 2
\* Tokens that follow the command in a line of the session.
MaxArgs == 2
\* Tokens past a command's declared positional parameters (binder runs).
MaxSurplus == 3
\* Length of the generated entries handed to the bool parser.
MaxEntryLen == 2

(* ------------------------------ strings ------------------------------- *)

UpperAlpha == <<"A","B","C","D","E","F","G","H","I","J","K","L","M",
                "N","O","P","Q","R","S","T","U","V","W","X","Y","Z">>

LowerAlpha == <<"a","b","c","d","e","f","g","h","i","j","k","l","m",
                "n","o","p","q","r","s","t","u","v","w","x","y","z">>

Digits == <<"0","1","2","3","4","5","6","7","8","9">>

LowerChar(c) ==
    IF \E i \in 1..26 : UpperAlpha[i] = c
    THEN LowerAlpha[CHOOSE i \in 1..26 : UpperAlpha[i] = c]
    ELSE c

\* str.lower()
Lower(s) == [i \in 1..Len(s) |-> LowerChar(s[i])]

IsDigit(c) == \E i \in 1..10 : Digits[i] = c

DigitVal(c) == (CHOOSE i \in 1..10 : Digits[i] = c) - 1

RECURSIVE DigitsValue(_)
DigitsValue(s) ==
    IF Len(s) = 0 THEN 0
    ELSE 10 * DigitsValue(SubSeq(s, 1, Len(s) - 1)) + DigitVal(s[Len(s)])

RECURSIVE NatToStr(_)
NatToStr(n) ==
    IF n < 10 THEN <<Digits[n + 1]>>
    ELSE NatToStr(n \div 10) \o <<Digits[(n % 10) + 1]>>

\* str(int), as the f-strings of the renderer format an integer
IntToStr(n) == IF n < 0 THEN <<"-">> \o NatToStr(0 - n) ELSE NatToStr(n)

\* The sequences over S of length at most n.
SeqsUpTo(S, n) == UNION {[1..k -> S] : k \in 0..n}

\* The position of the first c in s, 0 when there is none.
IndexOf(s, c) ==
    IF \E i \in 1..Len(s) : s[i] = c
    THEN CHOOSE i \in 1..Len(s) : s[i] = c /\ \A j \in 1..(i - 1) : s[j] # c
    ELSE 0

\* The position of the last c in s, 0 when there is none.
LastIndexOf(s, c) ==
    IF \E i \in 1..Len(s) : s[i] = c
    THEN CHOOSE i \in 1..Len(s) : s[i] = c /\ \A j \in (i + 1)..Len(s) : s[j] # c
    ELSE 0

(* --------------------------- Python values ---------------------------- *)

PyNone == [t |-> "none"]
PyStr(s) == [t |-> "str", s |-> s]
PyInt(n) == [t |-> "int", i |-> n]
PyBool(b) == [t |-> "bool", b |-> b]
PyEmptyDict == [t |-> "dict"]

\* format(value) inside an f-string
Format(v) ==
    CASE v.t = "none" -> <<"N","o","n","e">>
      [] v.t = "str"  -> v.s
      [] v.t = "int"  -> IntToStr(v.i)
      [] v.t = "bool" -> IF v.b THEN <<"T","r","u","e">> ELSE <<"F","a","l","s","e">>
      [] v.t = "dict" -> <<"{","}">>

\* A parser's outcome: a value, or the failure it raised.
Parsed(v) == [ok |-> TRUE, v |-> v]
ParseFailed == [ok |-> FALSE]

(* ------------------------ type coercion registry ---------------------- *)

falsy == { <<"n","o">>, <<"f","a","l","s","e">>,
           <<"n","e","g","a","t","i","v","e">>, <<"d","e","n","y">> }

truthy == { <<"y","e","s">>, <<"t","r","u","e">>,
            <<"p","o","s","i","t","i","v","e">>, <<"a","l","l","o","w">> }

\* A bool parser that forgets to lower-case its entry.
parse_bool_nolower(entry) ==
    IF entry \in falsy THEN Parsed(PyBool(FALSE))
    ELSE IF entry \in truthy THEN Parsed(PyBool(TRUE))
    ELSE ParseFailed

\* parse_bool: ValueError is the failed outcome.
parse_bool(entry) ==
    LET e == Lower(entry) IN
    IF e \in falsy THEN Parsed(PyBool(FALSE))
    ELSE IF e \in truthy THEN Parsed(PyBool(TRUE))
    ELSE ParseFailed

\* The built-in bool(str): true exactly for a non-empty string.
builtin_bool(entry) == Parsed(PyBool(Len(entry) > 0))

\* The built-in int(str) on a token: an optional sign, then digits.
builtin_int(entry) ==
    LET signed == Len(entry) > 0 /\ entry[1] \in {"+", "-"}
        body   == IF signed THEN Tail(entry) ELSE entry
    IN  IF Len(body) > 0 /\ \A i \in 1..Len(body) : IsDigit(body[i])
        THEN Parsed(PyInt(IF signed /\ entry[1] = "-"
                          THEN 0 - DigitsValue(body) ELSE DigitsValue(body)))
        ELSE ParseFailed

\* The built-in str(str).
builtin_str(entry) == Parsed(PyStr(entry))

\* The types of arg_parsers={bool: parse_bool}.
arg_parsers == {"bool"}

\* coerce(type, text): the parser registered last for a type is the one used,
\* so a type of arg_parsers never reaches its built-in parser.
Coerce(type, entry) ==
    IF type \in arg_parsers
    THEN parse_bool(entry)
    ELSE CASE type = "bool" -> builtin_bool(entry)
           [] type = "int"  -> builtin_int(entry)
           [] type = "str"  -> builtin_str(entry)

(* --------------------------- command registry ------------------------- *)

s_help == <<"h","e","l","p">>
s_clear == <<"c","l","e","a","r">>
s_quit == <<"q","u","i","t">>
s_exit == <<"e","x","i","t">>
s_q == <<"q">>
s_printfile == <<"p","r","i","n","t","f","i","l","e">>
s_print == <<"p","r","i","n","t">>
s_route == <<"r","o","u","t","e">>
s_echo == <<"e","c","h","o">>
s_set == <<"s","e","t">>
s_get == <<"g","e","t">>
s_name == <<"n","a","m","e">>
s_age == <<"a","g","e">>
s_item == <<"i","t","e","m">>
s_tabwidth == <<"t","a","b","w","i","d","t","h">>
s_username == <<"u","s","e","r","n","a","m","e">>
s_user_items == <<"u","s","e","r","-","i","t","e","m","s">>

\* The flat commands, by handler.
FlatCommands == {"uhelp", "clear", "uquit", "printfile", "route", "echo"}

\* The nouns of each verb, by handler: a noun's name is its handler's name
\* without the verb.
Nouns(verb) ==
    CASE verb = s_set -> {"setname", "setage", "setitem", "settabwidth"}
      [] verb = s_get -> {"getname", "getage", "getitem", "gettabwidth"}
      [] OTHER -> {}

Verbs == {s_set, s_get}

Commands == FlatCommands \cup Nouns(s_set) \cup Nouns(s_get)

\* A registry in which quit lost its one-letter alias.
Matches_noq(c) ==
    CASE c = "uhelp"       -> <<s_help>>
      [] c = "clear"       -> <<s_clear>>
      [] c = "uquit"       -> <<s_quit, s_exit>>
      [] c = "printfile"   -> <<s_printfile, s_print>>
      [] c = "route"       -> <<s_route>>
      [] c = "echo"        -> <<s_echo>>
      [] c = "setname"     -> <<s_name>>
      [] c = "setage"      -> <<s_age>>
      [] c = "setitem"     -> <<s_item>>
      [] c = "settabwidth" -> <<s_tabwidth>>
      [] c = "getname"     -> <<s_name>>
      [] c = "getage"      -> <<s_age>>
      [] c = "getitem"     -> <<s_item>>
      [] c = "gettabwidth" -> <<s_tabwidth>>

\* command.matches: the aliases given to the decorator, the handler's name
\* when none is given, the noun's name for a noun.
Matches(c) ==
    CASE c = "uhelp"       -> <<s_help>>
      [] c = "clear"       -> <<s_clear>>
      [] c = "uquit"       -> <<s_quit, s_exit, s_q>>
      [] c = "printfile"   -> <<s_printfile, s_print>>
      [] c = "route"       -> <<s_route>>
      [] c = "echo"        -> <<s_echo>>
      [] c = "setname"     -> <<s_name>>
      [] c = "setage"      -> <<s_age>>
      [] c = "setitem"     -> <<s_item>>
      [] c = "settabwidth" -> <<s_tabwidth>>
      [] c = "getname"     -> <<s_name>>
      [] c = "getage"      -> <<s_age>>
      [] c = "getitem"     -> <<s_item>>
      [] c = "gettabwidth" -> <<s_tabwidth>>

\* ignore_case=True
ignore_case == TRUE

\* Alias comparison under the session's case mode.
SameName(a, b) == IF ignore_case THEN Lower(a) = Lower(b) ELSE a = b

HasAlias(c, token) == \E i \in 1..Len(Matches(c)) : SameName(Matches(c)[i], token)

\* resolve(tokens) of a non-empty token list: a flat alias first, then a verb
\* and one of its nouns; UnknownCommandError names the first token.
Resolve(tokens) ==
    LET flat == {c \in FlatCommands : HasAlias(c, tokens[1])}
        verb == {v \in Verbs : SameName(v, tokens[1])}
        noun == IF verb = {} \/ Len(tokens) < 2 THEN {}
                ELSE {c \in Nouns(CHOOSE v \in verb : TRUE) : HasAlias(c, tokens[2])}
    IN  IF flat # {}
        THEN [ok |-> TRUE, cmd |-> CHOOSE c \in flat : TRUE, rest |-> Tail(tokens)]
        ELSE IF noun # {}
        THEN [ok |-> TRUE, cmd |-> CHOOSE c \in noun : TRUE, rest |-> Tail(Tail(tokens))]
        ELSE [ok |-> FALSE, err |-> "UnknownCommandError", token |-> tokens[1]]

(* ------------------------------ signatures ---------------------------- *)

Required(n, ty) == [name |-> n, type |-> ty, kind |-> "required", default |-> PyNone]
Optional(n, ty, d) == [name |-> n, type |-> ty, kind |-> "optional", default |-> d]
Variadic(n) == [name |-> n, type |-> "str", kind |-> "variadic", default |-> PyNone]
KeywordCapture(n) == [name |-> n, type |-> "str", kind |-> "kwargs", default |-> PyNone]

\* setitem with both of its parameters required.
setitem_bothrequired == <<Required("key", "str"), Required("value", "str")>>

\* def setitem(key: str, value: Optional[str] = None)
setitem_params == <<Required("key", "str"), Optional("value", "str", PyNone)>>

\* echo without its **kwargs parameter.
echo_nokwargs ==
    <<Required("string", "str"), Optional("second", "str", PyNone),
      Optional("flat", "bool", PyBool(FALSE)), Variadic("args")>>

\* def echo(string: str, second: Optional[str] = None, flat: bool = False,
\*          *args, **kwargs)
echo_params ==
    <<Required("string", "str"), Optional("second", "str", PyNone),
      Optional("flat", "bool", PyBool(FALSE)), Variadic("args"),
      KeywordCapture("kwargs")>>

\* The parameters of each handler, in declaration order.
Params(c) ==
    CASE c = "uhelp"       -> <<Optional("command_name", "str", PyNone),
                                Optional("full", "bool", PyBool(FALSE))>>
      [] c = "clear"       -> <<>>
      [] c = "uquit"       -> <<>>
      [] c = "setname"     -> <<Required("name", "str")>>
      [] c = "setage"      -> <<Required("age", "int")>>
      [] c = "setitem"     -> setitem_params
      [] c = "settabwidth" -> <<Required("width", "int")>>
      [] c = "getname"     -> <<>>
      [] c = "getage"      -> <<>>
      [] c = "getitem"     -> <<Optional("key", "str", PyNone)>>
      [] c = "gettabwidth" -> <<>>
      [] c = "printfile"   -> <<Required("path", "str"),
                                Optional("line_no", "bool", PyBool(FALSE)),
                                Optional("encoding", "str", PyNone)>>
      [] c = "route"       -> <<Variadic("args")>>
      [] c = "echo"        -> echo_params

\* A signature with a keyword-capture parameter and no variadic one; no
\* command of the program has it.
KeywordOnlyParams == <<Required("target", "str"), KeywordCapture("kwargs")>>

Positional(params) == SelectSeq(params, LAMBDA p : p.kind \in {"required", "optional"})
HasKind(params, k) == \E i \in 1..Len(params) : params[i].kind = k

(* ---------------------------- argument binder -------------------------- *)

BindFailed(e, n) == [ok |-> FALSE, err |-> e, param |-> n]

IsKeyValue(token) == IndexOf(token, "=") > 0
KeyOf(token) == SubSeq(token, 1, IndexOf(token, "=") - 1)
ValueOf(token) == SubSeq(token, IndexOf(token, "=") + 1, Len(token))

\* mapping[key] = value on a mapping kept in insertion order.
PutKey(mapping, key, value) ==
    IF \E i \in 1..Len(mapping) : mapping[i][1] = key
    THEN [i \in 1..Len(mapping) |->
            IF mapping[i][1] = key THEN <<key, value>> ELSE mapping[i]]
    ELSE Append(mapping, <<key, value>>)

\* The required and optional parameters, in declaration order: one token
\* each, coerced to the declared type; the default when an optional
\* parameter finds no token left.
RECURSIVE BindPositional(_, _, _)
BindPositional(params, tokens, acc) ==
    IF Len(params) = 0 THEN [ok |-> TRUE, args |-> acc, rest |-> tokens]
    ELSE LET p == Head(params) IN
         IF Len(tokens) = 0
         THEN IF p.kind = "required"
              THEN BindFailed("MissingArgumentError", p.name)
              ELSE BindPositional(Tail(params), tokens, Append(acc, p.default))
         ELSE LET r == Coerce(p.type, Head(tokens)) IN
              IF r.ok
              THEN BindPositional(Tail(params), Tail(tokens), Append(acc, r.v))
              ELSE BindFailed("ArgumentTypeError", p.name)

\* The surplus tokens: key=value tokens to the keyword-capture parameter when
\* one is declared, the others to the variadic parameter when one is
\* declared, as bare strings.
RECURSIVE BindSurplus(_, _, _, _)
BindSurplus(params, tokens, varargs, kwargs) ==
    IF Len(tokens) = 0
    THEN [ok |-> TRUE, varargs |-> varargs, kwargs |-> kwargs]
    ELSE LET tok == Head(tokens) IN
         IF HasKind(params, "kwargs") /\ IsKeyValue(tok)
         THEN BindSurplus(params, Tail(tokens), varargs,
                          PutKey(kwargs, KeyOf(tok), PyStr(ValueOf(tok))))
         ELSE IF HasKind(params, "variadic")
         THEN BindSurplus(params, Tail(tokens), Append(varargs, PyStr(tok)), kwargs)
         ELSE BindFailed("UnexpectedArgumentError", "")

\* bind(command, remainingTokens)
Bind(params, tokens) ==
    LET pos == BindPositional(Positional(params), tokens, <<>>) IN
    IF ~pos.ok THEN pos
    ELSE LET sur == BindSurplus(params, pos.rest, <<>>, <<>>) IN
         IF ~sur.ok THEN sur
         ELSE [ok |-> TRUE, args |-> pos.args,
               varargs |-> sur.varargs, kwargs |-> sur.kwargs]

(* ------------------------- maps (Python dicts) ------------------------ *)

EmptyMap == [k \in {} |-> PyNone]
SetKey(m, k, v) == [x \in (DOMAIN m) \cup {k} |-> IF x = k THEN v ELSE m[x]]
DelKey(m, k) == [x \in (DOMAIN m) \ {k} |-> m[x]]
HasKey(m, k) == k \in DOMAIN m

(* ------------------------------- handlers ----------------------------- *)

\* DEFAULT_TABWIDTH = 4
DEFAULT_TABWIDTH == 4

\* env_vars of the CLI at construction.
InitialEnv ==
    SetKey(SetKey(SetKey(SetKey(EmptyMap,
        s_username, PyNone),
        s_age, PyNone),
        s_user_items, PyEmptyDict),
        s_tabwidth, PyInt(DEFAULT_TABWIDTH))

\* The options each command is registered with.
InitialOptions(c) ==
    CASE c \in {"clear", "uquit", "echo"} -> SetKey(EmptyMap, "ignore-value", PyBool(TRUE))
      [] c = "printfile" -> SetKey(EmptyMap, "delimiter", PyStr(<<":","\n">>))
      [] OTHER -> EmptyMap

\* What a handler's call leaves behind: the environment store, its own
\* options map, the CLI's title, the returned value or the class of the
\* exception it raised, whether it issued stop, and what it printed.
Returned(e, o, t, v) ==
    [env |-> e, o |-> o, title |-> t, ret |-> v, exc |-> "", stop |-> FALSE, out |-> <<>>]
Raised(e, o, t, cls) ==
    [env |-> e, o |-> o, title |-> t, ret |-> PyNone, exc |-> cls, stop |-> FALSE, out |-> <<>>]

\* command.detail and the handler's docstring are the engine's texts; each
\* is one opaque piece of the returned string.
Detail(c, full) ==
    IF full = PyBool(TRUE) THEN <<"<detail>", c, " ", "|", " ", "<doc>", c>>
    ELSE <<"<detail>", c>>

AllDetails(full) ==
    IF full = PyBool(TRUE) THEN <<"\t", "<details and docs of all commands>">>
    ELSE <<"\t", "<details of all commands>">>

\* uhelp that leaves the delimiter alone when a command is named.
uhelp_keepsdelimiter(command_name, full, env, o, title) ==
    IF command_name = PyNone
    THEN Returned(env,
                  SetKey(SetKey(o, "title", PyStr(<<"H","e","l","p">>)), "delimiter", PyStr(<<"\n">>)),
                  title, PyStr(AllDetails(full)))
    ELSE LET m == Resolve(<<command_name.s>>) IN
         IF ~m.ok THEN Raised(env, o, title, "UnknownCommandError")
         ELSE Returned(env, SetKey(o, "title", PyStr(<<"H","e","l","p"," ","f","o","r">>)),
                       title, PyStr(Detail(m.cmd, full)))

\* uhelp(command_name, full); cli.match_command fails on a name that
\* resolves to no command.
uhelp(command_name, full, env, o, title) ==
    IF command_name = PyNone
    THEN Returned(env,
                  SetKey(SetKey(o, "title", PyStr(<<"H","e","l","p">>)), "delimiter", PyStr(<<"\n">>)),
                  title, PyStr(AllDetails(full)))
    ELSE LET m == Resolve(<<command_name.s>>) IN
         IF ~m.ok THEN Raised(env, o, title, "UnknownCommandError")
         ELSE Returned(env,
                       SetKey(SetKey(o, "title", PyStr(<<"H","e","l","p"," ","f","o","r">>)), "delimiter", PyStr(<<" ">>)),
                       title, PyStr(Detail(m.cmd, full)))

\* clear(): os.system, nothing of the session changes.
clear(env, o, title) == Returned(env, o, title, PyNone)

\* uquit that forgets to stop the session.
uquit_nostop(env, o, title) == Returned(env, o, title, PyNone)

\* uquit(): cli.stop()
uquit(env, o, title) == [Returned(env, o, title, PyNone) EXCEPT !.stop = TRUE]

\* setname(name)
setname(name, env, o, title) ==
    Returned(SetKey(env, s_username, name), o,
             IF Len(name.s) > 0 THEN name.s \o <<"@","C","L","I"," ","A","p","p">> ELSE <<"C","L","I"," ","A","p","p">>,
             name)

\* setage that returns the age without storing it.
setage_nostore(age, env, o, title) == Returned(env, o, title, age)

\* setage(age)
setage(age, env, o, title) == Returned(SetKey(env, s_age, age), o, title, age)

\* setitem(key, value)
setitem(key, value, env, o, title) ==
    IF HasKey(env, key.s)
    THEN Returned(SetKey(env, key.s, value), o, title,
                  PyStr(<<"O","v","e","r","w","r","i","t","t","e","n"," ","a","s"," ">> \o key.s \o <<":">> \o Format(value)))
    ELSE Returned(SetKey(env, key.s, value), o, title,
                  PyStr(key.s \o <<":">> \o Format(value)))

\* settabwidth(width)
settabwidth(width, env, o, title) ==
    IF width.i <= 0
    THEN Returned(env, o, title, PyStr(<<"E","r","r","o","r",","," ","t","a","b","w","i","d","t","h"," ","m","u","s","t"," ","b","e"," ","g","r","e","a","t","e","r"," ","t","h","a","n"," ","0">>))
    ELSE Returned(SetKey(env, s_tabwidth, PyInt(4)), o, title, PyNone)

\* getname()
getname(env, o, title) ==
    IF ~HasKey(env, s_username) THEN Returned(env, o, title, PyStr(<<>>))
    ELSE IF env[s_username] = PyNone THEN Returned(env, o, title, PyStr(<<>>))
    ELSE Returned(env, o, title, env[s_username])

\* getage()
getage(env, o, title) ==
    IF ~HasKey(env, s_age) THEN Returned(env, o, title, PyStr(<<>>))
    ELSE IF env[s_age] = PyNone THEN Returned(env, o, title, PyStr(<<>>))
    ELSE Returned(env, o, title, env[s_age])

\* getitem(key): "for key, value in items" unpacks each element of items, so
\* it raises on a non-empty string (ValueError) and on a value that is not
\* iterable (TypeError).
getitem(key, env, o, title) ==
    IF ~HasKey(env, s_user_items) THEN Returned(env, o, title, PyStr(<<>>))
    ELSE IF key = PyNone
    THEN LET items == env[s_user_items] IN
         CASE items.t = "dict" -> Returned(env, o, title, PyStr(<<"\n">>))
           [] items.t = "str"  -> IF Len(items.s) = 0
                                  THEN Returned(env, o, title, PyStr(<<"\n">>))
                                  ELSE Raised(env, o, title, "ValueError")
           [] OTHER -> Raised(env, o, title, "TypeError")
    ELSE IF ~HasKey(env, key.s)
    THEN Returned(env, o, title, PyStr(<<"K","e","y"," ">> \o key.s \o <<" ","d","o","e","s"," ","n","o","t"," ","e","x","i","s","t">>))
    ELSE Returned(env, o, title, env[key.s])

\* gettabwidth()
gettabwidth(env, o, title) ==
    LET e == IF ~HasKey(env, s_tabwidth)
             THEN SetKey(env, s_tabwidth, PyInt(DEFAULT_TABWIDTH)) ELSE env
    IN  Returned(e, o, title, e[s_tabwidth])

\* os.path.basename
basename(path) == SubSeq(path, LastIndexOf(path, "/") + 1, Len(path))

\* What the file system answers for a path: no such file, a file open() or
\* readlines() fails on, a file of no lines, a file of lines.
FileKinds == {"missing", "unreadable", "empty", "text"}

\* The text printfile builds is one opaque piece of the returned string.
FileText(path, line_no) ==
    IF line_no = PyBool(TRUE) THEN <<"<numbered lines of>", path>> ELSE <<"<lines of>", path>>

\* printfile(path, line_no, encoding); math.log10(0) raises ValueError.
printfile(path, line_no, encoding, env, o, title, file) ==
    LET o1 == DelKey(o, "title")
        o2 == SetKey(o1, "title", PyStr(basename(path.s)))
    IN  CASE file = "missing"    -> Raised(env, o1, title, "FileNotFoundError")
          [] file = "unreadable" -> Raised(env, o2, title, "OSError")
          [] file = "empty"      -> Raised(env, o2, title, "ValueError")
          [] file = "text"       -> Returned(env, o2, title, PyStr(FileText(path.s, line_no)))

\* The exit statuses os.system may return.
ExitStatuses == {0, 1}

\* route(*args)
route(args, env, o, title, status) ==
    Returned(env,
             SetKey(o, "title", IF Len(args) > 0 THEN args[1] ELSE PyStr(s_route)),
             title, PyInt(status))

\* echo(string, second, flat, *args, **kwargs): each printed line is the
\* tuple of what its f-string formats.
echo(string, second, flat, args, kwargs, env, o, title) ==
    LET l1 == <<<<"string=", string>>>>
        l2 == IF second # PyNone THEN <<<<"second=", second>>>> ELSE <<>>
        l3 == IF flat = PyBool(TRUE)
              THEN (IF Len(args) > 0 THEN <<<<"args=", args>>>> ELSE <<>>)
                   \o (IF Len(kwargs) > 0 THEN <<<<"kwargs=", kwargs>>>> ELSE <<>>)
              ELSE [i \in 1..Len(args) |-> <<i - 1, ":", args[i]>>]
                   \o [i \in 1..Len(kwargs) |-> <<kwargs[i][1], ":", kwargs[i][2]>>]
    IN  [Returned(env, o, title, PyNone) EXCEPT !.out = l1 \o l2 \o l3]

(* ------------------------------ renderers ----------------------------- *)

NoExc == [cls |-> "", cli |-> FALSE, cause |-> "", stage |-> ""]

\* A failure of the engine's taxonomy (a CLIError), raised at a stage of the
\* cycle, with the cause it chains.
CLIError(cls, cause, stage) == [cls |-> cls, cli |-> TRUE, cause |-> cause, stage |-> stage]

\* An error renderer that raises again what it was given.
exception_handler_reraises(exception, invoking) ==
    [lines |-> <<<<"Unkown exception was raised: ", exception.cls>>>>, raised |-> TRUE]

\* exception_handler(exception): the lines it prints; it returns on every
\* path.  invoking is cli.invoking(), "" for None.
exception_handler(exception, invoking) ==
    IF exception.cli
    THEN [lines |->
            (IF invoking = ""
             THEN <<<<"! An error occured: ", exception.cls>>>>
             ELSE <<<<"! An error occured running command ", Matches(invoking)[1],
                      ": ", exception.cls>>>>)
            \o (IF exception.cause # ""
                THEN <<<<"! Cause: ", exception.cause>>>> ELSE <<>>),
          raised |-> FALSE]
    ELSE [lines |-> <<<<"Unkown exception was raised: ", exception.cls>>, <<"<traceback>">>>>,
          raised |-> FALSE]

\* A value renderer that prints even when ignore-value is set.
return_value_handler_noignore(matches, options, value) ==
    LET title == IF HasKey(options, "title") THEN options["title"] ELSE PyStr(matches[1])
        delimiter == IF HasKey(options, "delimiter") THEN options["delimiter"]
                     ELSE PyStr(<<"-",">">>)
    IN  IF value = PyNone
        THEN <<Format(title) \o Format(delimiter) \o <<"D","o","n","e","!">>>>
        ELSE <<Format(title) \o Format(delimiter) \o Format(value)>>

\* return_value_handler(command, value): the lines it prints.
return_value_handler(matches, options, value) ==
    IF HasKey(options, "ignore-value") /\ options["ignore-value"] = PyBool(TRUE)
    THEN <<>>
    ELSE LET title == IF HasKey(options, "title") THEN options["title"]
                      ELSE PyStr(matches[1])
             delimiter == IF HasKey(options, "delimiter") THEN options["delimiter"]
                          ELSE PyStr(<<"-",">">>)
         IN  IF value = PyNone
             THEN <<Format(title) \o Format(delimiter) \o <<"D","o","n","e","!">>>>
             ELSE <<Format(title) \o Format(delimiter) \o Format(value)>>

(* ---------------------------- the invocation --------------------------- *)

\* The handler of command c called with the bound arguments b.
Call(c, b, env, o, title, file, status) ==
    LET a == b.args IN
         CASE c = "uhelp"       -> uhelp(a[1], a[2], env, o, title)
           [] c = "clear"       -> clear(env, o, title)
           [] c = "uquit"       -> uquit(env, o, title)
           [] c = "setname"     -> setname(a[1], env, o, title)
           [] c = "setage"      -> setage(a[1], env, o, title)
           [] c = "setitem"     -> setitem(a[1], a[2], env, o, title)
           [] c = "settabwidth" -> settabwidth(a[1], env, o, title)
           [] c = "getname"     -> getname(env, o, title)
           [] c = "getage"      -> getage(env, o, title)
           [] c = "getitem"     -> getitem(a[1], env, o, title)
           [] c = "gettabwidth" -> gettabwidth(env, o, title)
           [] c = "printfile"   -> printfile(a[1], a[2], a[3], env, o, title, file)
           [] c = "route"       -> route(b.varargs, env, o, title, status)
           [] c = "echo"        -> echo(a[1], a[2], a[3], b.varargs, b.kwargs, env, o, title)

(* ------------------------- the dispatch loop -------------------------- *)

VARIABLES
    pc,           \* the loop's state: Idle, Reading, Resolving, Binding,
                  \* Invoking, Rendering, Stopped (Aborted: run() raised)
    env,          \* cli.env_vars
    opts,         \* command.options of every command
    cliTitle,     \* cli.title
    running,      \* false once a handler issued stop
    invoking,     \* cli.invoking(): the command of the cycle, "" for None
    pend,         \* the pending invocation of the cycle
    nread,        \* lines read so far
    envBefore,    \* env when the cycle's line was read
    optsBefore,   \* opts when the cycle's line was read
    errCalls,     \* calls of the error renderer in the cycle
    valCalls,     \* calls of the value renderer in the cycle
    handlerCalls, \* calls of a handler in the cycle
    printed,      \* the lines the renderer printed in the cycle
    handlerOut    \* the lines the handler printed in the cycle

vars == <<pc, env, opts, cliTitle, running, invoking, pend, nread, envBefore,
          optsBefore, errCalls, valCalls, handlerCalls, printed, handlerOut>>

NoBind == [ok |-> FALSE, err |-> "", param |-> ""]

NewPending(tokens) ==
    [tokens |-> tokens, cmd |-> "", rest |-> <<>>, sig |-> <<>>,
     bound |-> NoBind, exc |-> NoExc, ret |-> PyNone]

t_42 == <<"4","2">>
t_abc == <<"a","b","c">>
t_path == <<"d","/","f">>

t_0 == <<"0">>
t_yes == <<"y","e","s">>

\* The tokens that follow command c in the lines of a session ("" for a
\* line that names no command).
SessionArgs(c) ==
    CASE c = "uhelp"       -> {s_quit, t_abc}
      [] c = "setname"     -> {t_abc}
      [] c = "setage"      -> {t_42, t_abc}
      [] c = "setitem"     -> {s_user_items, t_abc}
      [] c = "settabwidth" -> {t_0, t_42}
      [] c = "getitem"     -> {s_user_items, t_abc}
      [] c = "printfile"   -> {t_path, t_yes}
      [] c = "route"       -> {t_path, t_abc}
      [] c = "echo"        -> {t_abc, t_yes}
      [] OTHER             -> {t_abc}

\* The tokens that name a command, with the command, or fail to.
SessionHeads ==
    { <<<<s_help>>, "uhelp">>, <<<<s_clear>>, "clear">>, <<<<s_quit>>, "uquit">>,
      <<<<s_exit>>, "uquit">>, <<<<<<"Q">>>>, "uquit">>, <<<<s_print>>, "printfile">>,
      <<<<s_route>>, "route">>, <<<<s_echo>>, "echo">>,
      <<<<s_set, s_name>>, "setname">>, <<<<s_set, s_age>>, "setage">>,
      <<<<s_set, s_item>>, "setitem">>, <<<<s_set, s_tabwidth>>, "settabwidth">>,
      <<<<s_get, s_name>>, "getname">>, <<<<s_get, s_age>>, "getage">>,
      <<<<s_get, s_item>>, "getitem">>, <<<<s_get, s_tabwidth>>, "gettabwidth">>,
      <<<<t_abc>>, "">>, <<<<s_set>>, "">> }

Min(a, b) == IF a < b THEN a ELSE b

\* How many tokens follow command c at most: one past its positional
\* parameters, MaxArgs when it has a variadic parameter.
ArgsBound(c, max) ==
    IF c = "" THEN Min(max, 1)
    ELSE IF HasKind(Params(c), "variadic") THEN max
    ELSE Min(max, Len(Positional(Params(c))) + 1)

\* The lines of a session, as token lists; <<>> is the empty line.
SessionLines ==
    {<<>>} \cup UNION { {h[1] \o a : a \in SeqsUpTo(SessionArgs(h[2]), ArgsBound(h[2], MaxArgs))}
                        : h \in SessionHeads }

Init ==
    /\ pc = "Idle"
    /\ env = InitialEnv
    /\ opts = [c \in Commands |-> InitialOptions(c)]
    /\ cliTitle = <<"C","L","I"," ","A","p","p">>
    /\ running = TRUE
    /\ invoking = ""
    /\ pend = NewPending(<<>>)
    /\ nread = 0
    /\ envBefore = InitialEnv
    /\ optsBefore = [c \in Commands |-> InitialOptions(c)]
    /\ errCalls = 0
    /\ valCalls = 0
    /\ handlerCalls = 0
    /\ printed = <<>>
    /\ handlerOut = <<>>

\* Idle -> Reading: the loop asks for the next line while the session runs.
Prompt ==
    /\ pc = "Idle"
    /\ running
    /\ nread < MaxLines
    /\ pc' = "Reading"
    /\ UNCHANGED <<env, opts, cliTitle, running, invoking, pend, nread, envBefore,
                   optsBefore, errCalls, valCalls, handlerCalls, printed, handlerOut>>

\* The cycle a line begins: an empty line goes back to Idle.
BeginCycle(tokens) ==
    /\ nread' = nread + 1
    /\ pend' = NewPending(tokens)
    /\ invoking' = ""
    /\ envBefore' = env
    /\ optsBefore' = opts
    /\ errCalls' = 0
    /\ valCalls' = 0
    /\ handlerCalls' = 0
    /\ printed' = <<>>
    /\ handlerOut' = <<>>
    /\ pc' = IF tokens = <<>> THEN "Idle" ELSE "Resolving"
    /\ UNCHANGED <<env, opts, cliTitle, running>>

\* Reading: a line arrives.
ReadLine ==
    /\ pc = "Reading"
    /\ \E tokens \in SessionLines : BeginCycle(tokens)

\* Resolving: a failure goes to Rendering.
ResolveStep ==
    /\ pc = "Resolving"
    /\ LET r == Resolve(pend.tokens) IN
       IF r.ok
       THEN /\ pend' = [pend EXCEPT !.cmd = r.cmd, !.rest = r.rest, !.sig = Params(r.cmd)]
            /\ invoking' = r.cmd
            /\ pc' = "Binding"
       ELSE /\ pend' = [pend EXCEPT !.exc = CLIError(r.err, "", "resolve")]
            /\ invoking' = invoking
            /\ pc' = "Rendering"
    /\ UNCHANGED <<env, opts, cliTitle, running, nread, envBefore, optsBefore,
                   errCalls, valCalls, handlerCalls, printed, handlerOut>>

\* Binding: a failure goes to Rendering; a parser's failure is the cause of
\* the ArgumentTypeError.
BindStep ==
    /\ pc = "Binding"
    /\ LET b == Bind(pend.sig, pend.rest) IN
       IF b.ok
       THEN /\ pend' = [pend EXCEPT !.bound = b]
            /\ pc' = "Invoking"
       ELSE /\ pend' = [pend EXCEPT !.bound = b, !.exc =
                    CLIError(b.err,
                             IF b.err = "ArgumentTypeError" THEN "ValueError" ELSE "",
                             "bind")]
            /\ pc' = "Rendering"
    /\ UNCHANGED <<env, opts, cliTitle, running, invoking, nread, envBefore, optsBefore,
                   errCalls, valCalls, handlerCalls, printed, handlerOut>>

\* Invoking: the handler runs; whatever it raises is caught here and carried
\* as a HandlerError with the raised exception as its cause.
InvokeStep ==
    /\ pc = "Invoking"
    /\ \E file \in (IF pend.cmd = "printfile" THEN FileKinds ELSE {"text"}),
          status \in (IF pend.cmd = "route" THEN ExitStatuses ELSE {0}) :
         LET h == Call(pend.cmd, pend.bound, env, opts[pend.cmd], cliTitle, file, status) IN
         /\ env' = h.env
         /\ opts' = [opts EXCEPT ![pend.cmd] = h.o]
         /\ cliTitle' = h.title
         /\ running' = (running /\ ~h.stop)
         /\ handlerOut' = h.out
         /\ pend' = IF h.exc = "" THEN [pend EXCEPT !.ret = h.ret]
                    ELSE [pend EXCEPT !.exc = CLIError("HandlerError", h.exc, "invoke")]
    /\ handlerCalls' = handlerCalls + 1
    /\ pc' = "Rendering"
    /\ UNCHANGED <<invoking, nread, envBefore, optsBefore, errCalls, valCalls, printed>>

\* Where the loop goes once the outcome is rendered.
AfterRendering == IF running THEN "Idle" ELSE "Stopped"

\* A loop that hands a failure to both renderers.
RenderStep_both ==
    /\ pc = "Rendering"
    /\ IF pend.exc # NoExc
       THEN /\ printed' = exception_handler(pend.exc, invoking).lines
            /\ errCalls' = errCalls + 1
            /\ valCalls' = valCalls + 1
            /\ pc' = AfterRendering
       ELSE /\ printed' = return_value_handler(Matches(pend.cmd), opts[pend.cmd], pend.ret)
            /\ valCalls' = valCalls + 1
            /\ errCalls' = errCalls
            /\ pc' = AfterRendering
    /\ UNCHANGED <<env, opts, cliTitle, running, invoking, pend, nread, envBefore,
                   optsBefore, handlerCalls, handlerOut>>

\* Rendering: the failure to the error renderer, the value to the value
\* renderer; a renderer that raised would end run() with its exception.
RenderStep ==
    /\ pc = "Rendering"
    /\ IF pend.exc # NoExc
       THEN LET r == exception_handler(pend.exc, invoking) IN
            /\ printed' = r.lines
            /\ errCalls' = errCalls + 1
            /\ valCalls' = valCalls
            /\ pc' = IF r.raised THEN "Aborted" ELSE AfterRendering
       ELSE /\ printed' = return_value_handler(Matches(pend.cmd), opts[pend.cmd], pend.ret)
            /\ valCalls' = valCalls + 1
            /\ errCalls' = errCalls
            /\ pc' = AfterRendering
    /\ UNCHANGED <<env, opts, cliTitle, running, invoking, pend, nread, envBefore,
                   optsBefore, handlerCalls, handlerOut>>

Next == Prompt \/ ReadLine \/ ResolveStep \/ BindStep \/ InvokeStep \/ RenderStep

Spec == Init /\ [][Next]_vars

(* ------------------ resolve and bind on their own --------------------- *)

UpperChar(c) ==
    IF \E i \in 1..26 : LowerAlpha[i] = c
    THEN UpperAlpha[CHOOSE i \in 1..26 : LowerAlpha[i] = c]
    ELSE c

Upper(s) == [i \in 1..Len(s) |-> UpperChar(s[i])]
Capitalize(s) == [i \in 1..Len(s) |-> IF i = 1 THEN UpperChar(s[i]) ELSE s[i]]
CaseVariants(s) == {s, Upper(s), Capitalize(s)}

t_kv == <<"k","=","v">>
t_kw == <<"k","=","w">>
t_jv == <<"j","=","v">>
t_maybe == <<"m","a","y","b","e">>
t_neg == <<"-","7">>
t_pos == <<"+","5">>

\* The tokens that name command c in canonical form.
CanonicalHead(c) ==
    IF c \in FlatCommands THEN <<Matches(c)[1]>>
    ELSE IF c \in Nouns(s_set) THEN <<s_set, Matches(c)[1]>>
    ELSE <<s_get, Matches(c)[1]>>

\* The names the program's source gives its commands and nouns.
AllAliases == {s_help, s_clear, s_quit, s_exit, s_q, s_printfile, s_print, s_route, s_echo}
AllNouns == {s_name, s_age, s_item, s_tabwidth}

\* Token lists for resolve: every alias in three letter cases, every verb
\* with every noun likewise, and lists that name no command.
ResolveHeads ==
    UNION { {<<a>> : a \in CaseVariants(al)} : al \in AllAliases }
    \cup UNION { {<<v, n>> : v \in CaseVariants(vb), n \in CaseVariants(nn)}
                 : vb \in Verbs, nn \in AllNouns }
    \cup { <<v>> : v \in Verbs }
    \cup { <<v, x>> : v \in Verbs, x \in {t_abc, s_quit, s_set} }
    \cup { <<n>> : n \in AllNouns }
    \cup { <<n, v>> : n \in AllNouns, v \in Verbs }
    \cup { <<t_abc>>, <<<<"q","u","i">>>>, <<<<"q","u","i","t","t">>>>, <<<<"s","e","t","a","g","e">>>>, <<<<"h","e","l","p","q","u","i","t">>>> }

\* The tokens resolve must hand on unchanged.
ResolveRests == { <<>>, <<t_abc>>, <<s_quit, t_42>>, <<<<"S","e","t">>, <<"A","G","E">>, t_kv>> }

ResolveLines == { h \o r : h \in ResolveHeads, r \in ResolveRests }

\* The tokens tried on the positional parameters of command c.
BindVocab(c) ==
    CASE c = "uhelp"       -> {s_quit, t_yes, t_maybe}
      [] c = "setage"      -> {t_42, t_abc, t_neg, t_pos}
      [] c = "setitem"     -> {t_abc, t_42}
      [] c = "settabwidth" -> {t_0, t_abc}
      [] c = "printfile"   -> {t_path, t_yes, t_abc}
      [] c = "echo"        -> {t_abc, t_yes, t_kv}
      [] OTHER             -> {t_abc}

\* The tokens tried past the positional parameters of command c.
SurplusVocab(c) ==
    CASE c = "echo"  -> {t_abc, t_kv, t_kw, t_jv}
      [] c = "route" -> {t_abc, t_kv}
      [] OTHER       -> {t_abc}

Capturing(params) == HasKind(params, "variadic") \/ HasKind(params, "kwargs")

\* The argument lists for a signature: fewer tokens than positional
\* parameters, and every full list of them followed by surplus tokens.
ArgLists(params, vocab, surplus) ==
    LET n == Len(Positional(params)) IN
    UNION {[1..k -> vocab] : k \in 0..n}
    \cup { p \o x : p \in [1..n -> vocab],
                    x \in SeqsUpTo(surplus, IF Capturing(params) THEN MaxSurplus
                                            ELSE Min(MaxSurplus, 1)) }

BindLines ==
    UNION { {CanonicalHead(c) \o a : a \in ArgLists(Params(c), BindVocab(c), SurplusVocab(c))}
            : c \in Commands }

\* The entries tried on a bool parameter: the eight words, in three letter
\* cases, other words, the empty string, and every string of at most
\* MaxEntryLen of the letters n, o, N, O.
BoolEntries ==
    UNION { CaseVariants(w) : w \in truthy \cup falsy }
    \cup { t_maybe, t_abc, t_0, <<"1">>, <<"y","e","s","s">>, <<"t","r","u">>, <<"n","o","p","e">>, <<"y">> }
    \cup SeqsUpTo({"n", "o", "N", "O"}, MaxEntryLen)

BoolLines == { <<s_help, s_quit, e>> : e \in BoolEntries }

\* The binder on the signature no command has.
ProbeLines ==
    { <<<<"p","r","o","b","e">>>> \o a : a \in ArgLists(KeywordOnlyParams, {t_abc}, {t_abc, t_kv, t_jv}) }

\* A cycle that starts in Resolving with the given tokens, or in Binding
\* with the probe signature.
BindInit ==
    /\ \/ /\ pc = "Resolving"
          /\ \E tokens \in ResolveLines \cup BindLines \cup BoolLines :
                pend = NewPending(tokens)
       \/ /\ pc = "Binding"
          /\ \E tokens \in ProbeLines :
                pend = [NewPending(tokens) EXCEPT !.rest = Tail(tokens),
                                                  !.sig = KeywordOnlyParams]
    /\ env = InitialEnv
    /\ opts = [c \in Commands |-> InitialOptions(c)]
    /\ cliTitle = <<"C","L","I"," ","A","p","p">>
    /\ running = TRUE
    /\ invoking = ""
    /\ nread = 1
    /\ envBefore = InitialEnv
    /\ optsBefore = [c \in Commands |-> InitialOptions(c)]
    /\ errCalls = 0
    /\ valCalls = 0
    /\ handlerCalls = 0
    /\ printed = <<>>
    /\ handlerOut = <<>>

BindNext == ResolveStep \/ BindStep

BindSpec == BindInit /\ [][BindNext]_vars

(* ------------------------------- claims ------------------------------- *)

\* The cycle of the last line read is over.
CycleDone == pc \in {"Idle", "Stopped"} /\ nread > 0

Failed == pend.exc # NoExc

\* ResolveStep has acted on a token list of the registry's commands.
AfterResolve == pend.cmd # "" \/ pend.exc.stage = "resolve"

\* BindStep has acted.
AfterBind == pend.bound # NoBind

\* The first positional parameter binding stops at: one whose token does not
\* coerce, or a required one with no token left; 0 when there is none.
FirstBad(pos, rest) ==
    LET bad(i) == IF i <= Len(rest) THEN ~Coerce(pos[i].type, rest[i]).ok
                  ELSE pos[i].kind = "required"
    IN  IF \E i \in 1..Len(pos) : bad(i)
        THEN CHOOSE i \in 1..Len(pos) : bad(i) /\ \A j \in 1..(i - 1) : ~bad(j)
        ELSE 0

\* The tokens left once the positional parameters are bound.
SurplusOf(sig, rest) == SubSeq(rest, Len(Positional(sig)) + 1, Len(rest))

\* C1: a cycle that failed in Resolving, Binding or Invoking hands the
\* failure to the error renderer, once, and the loop goes back to Idle with
\* the session still running; run() never ends with an exception, and the
\* loop never enters Stopped from a failed cycle.
C1_FailureNeverEndsSession ==
    /\ [](pc # "Aborted")
    /\ [][ (pc = "Rendering" /\ Failed) =>
             /\ pc' = "Idle"
             /\ running'
             /\ errCalls' = errCalls + 1
             /\ printed' = exception_handler(pend.exc, invoking).lines ]_vars
    /\ [](pc = "Stopped" => ~Failed)

\* A handler raised, the error renderer got the failure, the loop is Idle.
C1_Witness ==
    /\ pc = "Idle"
    /\ nread > 0
    /\ pend.exc.stage = "invoke"
    /\ pend.exc.cause = "ValueError"
    /\ errCalls = 1
    /\ running

\* C2: the session stops only by a handler's stop directive, and the one
\* handler that issues it is uquit (quit, exit, q): the loop is Stopped
\* exactly after a cycle that invoked uquit, and nothing happens after it.
C2_StoppedOnlyByQuit ==
    /\ [](pc = "Stopped" =>
            /\ pend.cmd = "uquit"
            /\ handlerCalls = 1
            /\ ~Failed
            /\ Lower(pend.tokens[1]) \in {s_quit, s_exit, s_q})
    /\ []((pend.cmd = "uquit" /\ handlerCalls = 1) =>
            (~running /\ pc \in {"Rendering", "Stopped"}))
    /\ [][ /\ (running /\ ~running') => (pc = "Invoking" /\ pend.cmd = "uquit")
           /\ (pc = "Rendering" /\ ~running) => pc' = "Stopped"
           /\ (pc' = "Stopped") => (pc = "Rendering" /\ ~running)
           /\ pc # "Stopped" ]_vars

\* The session stopped on the line Q.
C2_Witness ==
    /\ pc = "Stopped"
    /\ pend.tokens = <<<<"Q">>>>
    /\ ~running

\* C3: a cycle calls at most one renderer, once; when the cycle of a
\* non-empty line is over exactly one was called, the error renderer exactly
\* when the cycle failed; an empty line calls no renderer and no handler.
C3_ExactlyOneRenderer ==
    /\ errCalls + valCalls <= 1
    /\ handlerCalls <= 1
    /\ pc \in {"Resolving", "Binding", "Invoking", "Rendering"} =>
          (errCalls = 0 /\ valCalls = 0)
    /\ CycleDone =>
          IF pend.tokens = <<>>
          THEN errCalls = 0 /\ valCalls = 0 /\ handlerCalls = 0 /\ printed = <<>>
          ELSE /\ errCalls + valCalls = 1
               /\ errCalls = 1 <=> Failed

\* A handler returned and the value renderer alone rendered the cycle.
C3_Witness ==
    /\ CycleDone
    /\ pend.tokens # <<>>
    /\ handlerCalls = 1
    /\ valCalls = 1
    /\ errCalls = 0
    /\ printed # <<>>

\* C4: a cycle that fails in Resolving or Binding calls no handler and
\* leaves the environment store, every options map and the title as they
\* were when the line was read; "set age abc" keeps the stored age,
\* "set age 42" stores the integer 42.
C4_FailedBindingHasNoEffect ==
    /\ pend.exc.stage \in {"resolve", "bind"} =>
          /\ handlerCalls = 0
          /\ env = envBefore
          /\ opts = optsBefore
          /\ handlerOut = <<>>
    /\ (CycleDone /\ pend.tokens = <<s_set, s_age, t_abc>>) =>
          /\ pend.exc.cls = "ArgumentTypeError"
          /\ env[s_age] = envBefore[s_age]
    /\ (CycleDone /\ pend.tokens = <<s_set, s_age, t_42>>) =>
          /\ ~Failed
          /\ env[s_age] = PyInt(42)

\* "set age abc" failed after an earlier "set age 42": the age is still 42.
C4_Witness ==
    /\ CycleDone
    /\ pend.tokens = <<s_set, s_age, t_abc>>
    /\ pend.exc.cls = "ArgumentTypeError"
    /\ envBefore[s_age] = PyInt(42)
    /\ env[s_age] = PyInt(42)

\* No two flat commands share an alias, no two nouns of a verb a name.
AliasesDistinct ==
    /\ \A c1, c2 \in FlatCommands : \A i \in 1..Len(Matches(c1)), j \in 1..Len(Matches(c2)) :
          (Lower(Matches(c1)[i]) = Lower(Matches(c2)[j])) => (c1 = c2 /\ i = j)
    /\ \A v \in Verbs : \A c1, c2 \in Nouns(v) :
          (Lower(Matches(c1)[1]) = Lower(Matches(c2)[1])) => c1 = c2

\* C5: resolve returns the flat command whose alias the first token is, in
\* any letter case, and hands on the other tokens; otherwise the noun of the
\* verb the first two tokens name, and hands on the rest; otherwise it fails
\* with UnknownCommandError.  No two commands share an alias.
C5_ResolveIsComplete ==
    /\ AliasesDistinct
    /\ AfterResolve =>
          LET tok   == pend.tokens
              first == Lower(tok[1])
              flat  == {c \in FlatCommands :
                          \E i \in 1..Len(Matches(c)) : Lower(Matches(c)[i]) = first}
              nouns == IF first \in Verbs /\ Len(tok) >= 2
                       THEN {c \in Nouns(first) : Lower(Matches(c)[1]) = Lower(tok[2])}
                       ELSE {}
          IN  /\ Cardinality(flat) <= 1
              /\ Cardinality(nouns) <= 1
              /\ flat # {} =>
                    (pend.cmd \in flat /\ pend.rest = SubSeq(tok, 2, Len(tok))
                     /\ pend.exc.stage # "resolve")
              /\ (flat = {} /\ nouns # {}) =>
                    (pend.cmd \in nouns /\ pend.rest = SubSeq(tok, 3, Len(tok))
                     /\ pend.exc.stage # "resolve")
              /\ (flat = {} /\ nouns = {}) =>
                    (pend.cmd = "" /\ pc = "Rendering"
                     /\ pend.exc = CLIError("UnknownCommandError", "", "resolve"))
              /\ first \in {s_quit, s_exit, s_q} => pend.cmd = "uquit"
              /\ (first = s_set /\ Len(tok) >= 2 /\ Lower(tok[2]) = s_age) =>
                    pend.cmd = "setage"

\* "SET Age abc" resolved to setage, two tokens consumed, abc handed on.
C5_Witness ==
    /\ pc = "Binding"
    /\ pend.tokens = <<Upper(s_set), Capitalize(s_age), t_abc>>
    /\ pend.cmd = "setage"
    /\ pend.rest = <<t_abc>>

\* C6: bind gives the tokens to the required and optional parameters in
\* declaration order: it fails at the first parameter whose token does not
\* coerce (ArgumentTypeError) or that is required and has no token
\* (MissingArgumentError), naming it; otherwise each parameter has its
\* coerced token, or its default when no token is left.  set name fails on
\* no token and keeps one token unchanged; set item binds key, and value or
\* None.
C6_BindInDeclarationOrder ==
    AfterBind =>
       LET b    == pend.bound
           rest == pend.rest
           pos  == Positional(pend.sig)
           k    == FirstBad(pos, rest)
       IN  /\ k > 0 =>
                /\ ~b.ok
                /\ b.param = pos[k].name
                /\ b.err = IF k <= Len(rest) THEN "ArgumentTypeError"
                           ELSE "MissingArgumentError"
           /\ (k = 0 /\ b.ok) =>
                /\ Len(b.args) = Len(pos)
                /\ \A i \in 1..Len(pos) :
                      b.args[i] = IF i <= Len(rest) THEN Coerce(pos[i].type, rest[i]).v
                                  ELSE pos[i].default
           /\ (k = 0 /\ ~b.ok) =>
                (b.err = "UnexpectedArgumentError" /\ Len(rest) > Len(pos))
           /\ (pend.cmd = "setname" /\ Len(rest) = 0) =>
                (~b.ok /\ b.err = "MissingArgumentError" /\ b.param = "name")
           /\ (pend.cmd = "setname" /\ Len(rest) = 1) =>
                (b.ok /\ b.args = <<PyStr(rest[1])>>)
           /\ (pend.cmd = "setitem" /\ Len(rest) = 0) =>
                (~b.ok /\ b.err = "MissingArgumentError" /\ b.param = "key")
           /\ (pend.cmd = "setitem" /\ Len(rest) = 1) =>
                (b.ok /\ b.args = <<PyStr(rest[1]), PyNone>>)
           /\ (pend.cmd = "setitem" /\ Len(rest) = 2) =>
                (b.ok /\ b.args = <<PyStr(rest[1]), PyStr(rest[2])>>)

\* set item with one token: key bound, value None.
C6_Witness ==
    /\ pc = "Invoking"
    /\ pend.cmd = "setitem"
    /\ pend.rest = <<t_abc>>
    /\ pend.bound.ok
    /\ pend.bound.args = <<PyStr(t_abc), PyNone>>

\* The key=value tokens of a surplus, and the others, each in input order.
KeyValueTokens(surplus) == SelectSeq(surplus, IsKeyValue)
PlainTokens(surplus) == SelectSeq(surplus, LAMBDA t : ~IsKeyValue(t))

\* The variadic sequence holds exactly the given tokens, as strings, in order.
HoldsTokens(varargs, tokens) ==
    /\ Len(varargs) = Len(tokens)
    /\ \A i \in 1..Len(tokens) : varargs[i] = PyStr(tokens[i])

\* The mapping holds one entry per key=value token, in encounter order.
HoldsEveryToken(kwargs, kv) ==
    /\ Len(kwargs) = Len(kv)
    /\ \A i \in 1..Len(kv) : kwargs[i] = <<KeyOf(kv[i]), PyStr(ValueOf(kv[i]))>>

\* The mapping holds one entry per key of the key=value tokens, in the order
\* the keys first occur, each with the value of the last token of that key.
HoldsEveryKey(kwargs, kv) ==
    LET firstAt(key) == CHOOSE i \in 1..Len(kv) :
                           KeyOf(kv[i]) = key /\ \A j \in 1..(i - 1) : KeyOf(kv[j]) # key
        lastAt(key)  == CHOOSE i \in 1..Len(kv) :
                           KeyOf(kv[i]) = key /\ \A j \in (i + 1)..Len(kv) : KeyOf(kv[j]) # key
    IN  /\ \A i \in 1..Len(kv) : \E j \in 1..Len(kwargs) : kwargs[j][1] = KeyOf(kv[i])
        /\ \A j \in 1..Len(kwargs) : \E i \in 1..Len(kv) : kwargs[j][1] = KeyOf(kv[i])
        /\ \A i, j \in 1..Len(kwargs) : kwargs[i][1] = kwargs[j][1] => i = j
        /\ \A j \in 1..Len(kwargs) :
              kwargs[j][2] = PyStr(ValueOf(kv[lastAt(kwargs[j][1])]))
        /\ \A i, j \in 1..Len(kwargs) :
              i < j => firstAt(kwargs[i][1]) < firstAt(kwargs[j][1])

KeysDistinct(kv) == \A i, j \in 1..Len(kv) : KeyOf(kv[i]) = KeyOf(kv[j]) => i = j

\* The mapping against the key=value tokens: every token kept, or one
\* entry per key.
MappingHolds(everyToken, kwargs, kv) ==
    IF everyToken THEN HoldsEveryToken(kwargs, kv) ELSE HoldsEveryKey(kwargs, kv)

\* What C7 says of the surplus, given what it says of the mapping.
SurplusPartitioned(everyToken) ==
    (AfterBind /\ FirstBad(Positional(pend.sig), pend.rest) = 0) =>
       LET b       == pend.bound
           surplus == SurplusOf(pend.sig, pend.rest)
           variadic == HasKind(pend.sig, "variadic")
           keywords == HasKind(pend.sig, "kwargs")
       IN  /\ pend.cmd = "route" => (variadic /\ ~keywords)
           /\ pend.cmd = "echo" => (variadic /\ keywords)
           /\ (variadic /\ ~keywords) =>
                (b.ok /\ HoldsTokens(b.varargs, surplus) /\ b.kwargs = <<>>)
           /\ (variadic /\ keywords) =>
                /\ b.ok
                /\ HoldsTokens(b.varargs, PlainTokens(surplus))
                /\ MappingHolds(everyToken, b.kwargs, KeyValueTokens(surplus))
           /\ (~variadic /\ keywords) =>
                IF PlainTokens(surplus) # <<>>
                THEN ~b.ok /\ b.err = "UnexpectedArgumentError"
                ELSE b.ok /\ b.varargs = <<>>
                          /\ MappingHolds(everyToken, b.kwargs, KeyValueTokens(surplus))

\* C7 as stated, for the commands of the program: the surplus tokens are
\* split without loss: the variadic sequence holds every token that is not
\* key=value, in input order (all N of them for route), and the keyword
\* mapping holds every key=value token, in encounter order.
C7_AsStated == (pend.cmd # "") => SurplusPartitioned(TRUE)

\* C7, amended: as stated, but the mapping holds one entry per key, at the
\* place the key first occurs and with the value of its last token; it
\* holds every key=value token when their keys are pairwise distinct.
C7_SurplusPartitionedByKey ==
    /\ SurplusPartitioned(FALSE)
    /\ (AfterBind /\ pend.bound.ok /\ KeysDistinct(KeyValueTokens(SurplusOf(pend.sig, pend.rest)))) =>
          /\ HoldsEveryToken(pend.bound.kwargs,
                             IF HasKind(pend.sig, "kwargs")
                             THEN KeyValueTokens(SurplusOf(pend.sig, pend.rest)) ELSE <<>>)
          /\ Len(pend.bound.varargs) + Len(pend.bound.kwargs)
                = Len(SurplusOf(pend.sig, pend.rest))

\* echo with three surplus tokens: one into the sequence, two into the
\* mapping, a key=value token first.
C7_Witness ==
    /\ pc = "Invoking"
    /\ pend.cmd = "echo"
    /\ SurplusOf(pend.sig, pend.rest) = <<t_kv, t_abc, t_jv>>
    /\ pend.bound.varargs = <<PyStr(t_abc)>>
    /\ pend.bound.kwargs = << <<<<"k">>, PyStr(<<"v">>)>>, <<<<"j">>, PyStr(<<"v">>)>> >>

\* C8: the value renderer prints nothing when ignore-value is set and true;
\* otherwise one line, title then delimiter then "Done!" for None and the
\* value otherwise, the title being options['title'] or else the first alias
\* and the delimiter options['delimiter'] or else "->".
C8_ValueRendering ==
    (CycleDone /\ valCalls = 1) =>
       LET o     == opts[pend.cmd]
           alias == Matches(pend.cmd)[1]
           title == IF "title" \in DOMAIN o THEN Format(o["title"]) ELSE alias
           delim == IF "delimiter" \in DOMAIN o THEN Format(o["delimiter"]) ELSE <<"-",">">>
       IN  /\ ("ignore-value" \in DOMAIN o /\ o["ignore-value"] = PyBool(TRUE)) =>
                printed = <<>>
           /\ ~("ignore-value" \in DOMAIN o /\ o["ignore-value"] = PyBool(TRUE)) =>
                /\ pend.ret = PyNone => printed = <<title \o delim \o <<"D","o","n","e","!">>>>
                /\ pend.ret # PyNone => printed = <<title \o delim \o Format(pend.ret)>>
           /\ (o = EmptyMap /\ pend.ret.t = "str") =>
                printed = <<alias \o <<"-",">">> \o pend.ret.s>>
           /\ (pend.tokens = <<s_set, s_age, t_42>>) => printed = <<<<"a","g","e","-",">","4","2">>>>

\* quit returned None with ignore-value set: nothing was printed.
C8_Witness ==
    /\ CycleDone
    /\ valCalls = 1
    /\ pend.cmd = "uquit"
    /\ pend.ret = PyNone
    /\ opts["uquit"]["ignore-value"] = PyBool(TRUE)
    /\ printed = <<>>

\* The words the bool parser knows.
TrueWords == { <<"y","e","s">>, <<"t","r","u","e">>, <<"p","o","s","i","t","i","v","e">>, <<"a","l","l","o","w">> }
FalseWords == { <<"n","o">>, <<"f","a","l","s","e">>, <<"n","e","g","a","t","i","v","e">>, <<"d","e","n","y">> }

\* The place of the bool parameter among the positional parameters of the
\* commands that have one; the parameters before it are strings.
BoolAt(c) ==
    CASE c = "uhelp" -> 2
      [] c = "printfile" -> 2
      [] c = "echo" -> 3
      [] OTHER -> 0

\* C9: a bool parameter's token is parsed by the registered parser, not the
\* built-in one: true for a token that lower-cased is yes, true, positive or
\* allow, false for no, false, negative or deny, and for every other token,
\* the empty one too, binding fails with ArgumentTypeError naming the
\* parameter.
C9_BoolParser ==
    (AfterBind /\ BoolAt(pend.cmd) > 0 /\ Len(pend.rest) >= BoolAt(pend.cmd)) =>
       LET b == pend.bound
           i == BoolAt(pend.cmd)
           e == Lower(pend.rest[i])
           p == Positional(pend.sig)[i]
       IN  /\ p.type = "bool"
           /\ e \in TrueWords =>
                /\ b.ok => b.args[i] = PyBool(TRUE)
                /\ ~b.ok => b.param # p.name
                /\ Len(pend.rest) = i => b.ok
           /\ e \in FalseWords =>
                /\ b.ok => b.args[i] = PyBool(FALSE)
                /\ ~b.ok => b.param # p.name
                /\ Len(pend.rest) = i => b.ok
           /\ e \notin TrueWords \cup FalseWords =>
                (~b.ok /\ b.err = "ArgumentTypeError" /\ b.param = p.name)

\* "help quit Allow" bound full = True.
C9_Witness ==
    /\ pc = "Invoking"
    /\ pend.tokens = <<s_help, s_quit, <<"A","l","l","o","w">>>>
    /\ pend.bound.ok
    /\ pend.bound.args[2] = PyBool(TRUE)

\* C10: a successful help, printfile or route is rendered with the title and
\* the delimiter its own arguments give, whatever earlier invocations left
\* in its options map: Help and a newline, or Help for and a space; the
\* first argument of route or "route", and "->"; the file's base name and
\* ":\n".
C10_RenderingFromOwnArguments ==
    (CycleDone /\ valCalls = 1) =>
       LET a == pend.bound.args
           v == Format(pend.ret)
       IN  /\ (pend.cmd = "uhelp" /\ a[1] = PyNone) =>
                printed = <<<<"H","e","l","p">> \o <<"\n">> \o v>>
           /\ (pend.cmd = "uhelp" /\ a[1] # PyNone) =>
                printed = <<<<"H","e","l","p"," ","f","o","r">> \o <<" ">> \o v>>
           /\ (pend.cmd = "route" /\ Len(pend.bound.varargs) > 0) =>
                printed = <<pend.rest[1] \o <<"-",">">> \o v>>
           /\ (pend.cmd = "route" /\ Len(pend.bound.varargs) = 0) =>
                printed = <<<<"r","o","u","t","e">> \o <<"-",">">> \o v>>
           /\ (pend.cmd = "printfile") =>
                printed = <<SubSeq(pend.rest[1], LastIndexOf(pend.rest[1], "/") + 1,
                                   Len(pend.rest[1])) \o <<":","\n">> \o v>>
           /\ (pend.cmd = "printfile" /\ pend.rest[1] = t_path) =>
                printed = <<<<"f",":","\n">> \o v>>

\* help with a name, rendered right after a help without one left the title
\* Help and the newline delimiter in the options map.
C10_Witness ==
    /\ CycleDone
    /\ valCalls = 1
    /\ pend.cmd = "uhelp"
    /\ pend.bound.args[1] = PyStr(s_quit)
    /\ optsBefore["uhelp"] =
          SetKey(SetKey(EmptyMap, "title", PyStr(<<"H","e","l","p">>)), "delimiter", PyStr(<<"\n">>))
    /\ printed = <<<<"H","e","l","p"," ","f","o","r"," ">> \o Format(pend.ret)>>

====
